---- MODULE Spec2Model ----
(***************************************************************************)
(* ShowBook (src/showbook.py): the TMDB fetch loop, the JSON cache, the    *)
(* main() control flow and the FPDF page layout driven by generate_pdf.    *)
(* Lengths are in 1/100 mm.  Strings are sequences of code points.         *)
(***************************************************************************)
EXTENDS Integers, Sequences, FiniteSets, TLC

VARIABLES
    catalog,    \* generate_pdf's argument: <<[name, Movies, Shows], ...>>
    prog,       \* the calls generate_pdf makes on the ShowBook object, in order
    pc,         \* index in prog of the next call
    pdf,        \* the FPDF object: page, x, y, l_margin, r_margin, t_margin, state
    doc,        \* every content cell and rule written so far: [kind, page, y, h, text]
    running,    \* every running header and footer cell written so far
    pagelog,    \* one record per page started: [no, why, l, r, t, y, header]
    pages_out,  \* the page count generate_pdf returns (-1 before it returns)
    ft,         \* the frame of the running fetch_titles call
    fa,         \* the frame of fetch_all: provider index, media type, catalog so far
    mainpc,     \* the position of main()
    args,       \* the parsed command line
    exit_code,  \* the process's exit status (-1 while running)
    saved,      \* catalogs passed to save_cache, in order
    rendered,   \* catalogs passed to generate_pdf by main, in order
    cache_in,   \* the catalog and region handed to save_cache
    cache_file, \* the JSON document on disk
    cache_out,  \* what load_cache returned
    cachepc     \* the position of the cache round trip

vars == <<catalog, prog, pc, pdf, doc, running, pagelog, pages_out, ft, fa, mainpc, args,
          exit_code, saved, rendered, cache_in, cache_file, cache_out, cachepc>>

buildVars == <<catalog, prog, pc, pdf, doc, running, pagelog, pages_out>>
fetchVars == <<ft>>
mainVars  == <<fa, mainpc, args, exit_code, saved, rendered>>
cacheVars == <<cache_in, cache_file, cache_out, cachepc>>

----------------------------------------------------------------------------
(* Program constants, 1/100 mm *)
TRIM_W_MM == 15240
TRIM_H_MM == 22860
MARGIN_GUTTER_MM == 1905
MARGIN_OUTSIDE_MM == 1270
MARGIN_TOP_MM == 1270
MARGIN_BOTTOM_MM == 1270
\* FPDF's constructor sets every margin to 1 cm before the program sets its own
FPDF_DEFAULT_MARGIN == 1000

(* Bounds of the model *)
MaxProviders == 2
MaxTitles == 41

\* Python's None, as a value comparable with strings (no code point is negative)
None == <<-1>>

Min(a, b) == IF a < b THEN a ELSE b

----------------------------------------------------------------------------
(* Text *)

\* f"{n}" for a non-negative integer
RECURSIVE Str(_)
Str(n) == IF n < 10 THEN <<48 + n>> ELSE Str(n \div 10) \o <<48 + (n % 10)>>

\* text.encode("latin-1", errors="replace").decode("latin-1")
safe(text) == [i \in 1..Len(text) |-> IF text[i] > 255 THEN 63 ELSE text[i]]

S_movies == <<32, 109, 111, 118, 105, 101, 115, 44, 32>>
S_shows == <<32, 115, 104, 111, 119, 115>>
S_indent4 == <<32, 32, 32, 32>>
S_indent2 == <<32, 32>>
S_Movies == <<77, 111, 118, 105, 101, 115>>
S_Shows == <<83, 104, 111, 119, 115>>
S_open == <<32, 40>>
S_close == <<41>>
S_titles_across == <<32, 116, 105, 116, 108, 101, 115, 32, 97, 99, 114, 111, 115, 115, 32>>
S_services == <<32, 115, 101, 114, 118, 105, 99, 101, 115>>

\* f"    {n_movies} movies, {n_shows} shows"
IndexCountsText(n_movies, n_shows) ==
    safe(S_indent4 \o Str(n_movies) \o S_movies \o Str(n_shows) \o S_shows)

\* f"{total} titles across {len(catalog)} services"
IndexTotalText(total, n) ==
    safe(Str(total) \o S_titles_across \o Str(n) \o S_services)

\* f"{heading} ({len(titles)})"
ListHeadingText(heading, n) == safe(heading \o S_open \o Str(n) \o S_close)

\* f"  {name}{suffix}" with suffix = f" ({year})" if year else ""
TitleLineText(t) ==
    LET year == t[2]
        suffix == IF year # None /\ year # <<>> THEN S_open \o year \o S_close ELSE <<>>
    IN safe(S_indent2 \o t[1] \o suffix)

----------------------------------------------------------------------------
(* The FPDF object, as ShowBook configures and overrides it *)

\* ShowBook.__init__: FPDF's defaults (cursor at the origin until the first
\* page begins, margins 1 cm), no automatic page break
ShowBook ==
    [page |-> 0, x |-> 0, y |-> 0,
     l_margin |-> FPDF_DEFAULT_MARGIN, r_margin |-> FPDF_DEFAULT_MARGIN,
     t_margin |-> FPDF_DEFAULT_MARGIN, state |-> "open"]

\* self._bottom
_bottom == TRIM_H_MM - MARGIN_BOTTOM_MM

Block(kind, p, h, text) == [kind |-> kind, page |-> p.page, y |-> p.y, h |-> h, text |-> text]

_apply_margins_cached(p) ==
    [p EXCEPT !.l_margin = MARGIN_GUTTER_MM, !.r_margin = MARGIN_OUTSIDE_MM,
              !.t_margin = MARGIN_TOP_MM, !.x = MARGIN_GUTTER_MM]

_apply_margins(p) ==
    LET odd == p.page % 2 = 1
        l == IF odd THEN MARGIN_GUTTER_MM ELSE MARGIN_OUTSIDE_MM
        r == IF odd THEN MARGIN_OUTSIDE_MM ELSE MARGIN_GUTTER_MM
    IN [p EXCEPT !.l_margin = l, !.r_margin = r, !.t_margin = MARGIN_TOP_MM, !.x = l]

\* FPDF.ln(h): back to the left margin, down by h
ln(p, h) == [p EXCEPT !.x = p.l_margin, !.y = p.y + h]

\* ShowBook.header: <<the object afterwards, the cells written>>
header(p) ==
    LET q == _apply_margins(p)
    IN IF q.page > 1
       THEN <<ln(q, 800), <<Block("header", q, 600, <<>>)>> >>
       ELSE <<q, <<>> >>

\* ShowBook.footer: set_y(-MARGIN_BOTTOM_MM), then one cell holding page_no().
\* The cell has width 0 and no ln: it runs to the right margin and leaves the
\* cursor there, on the same line.
footer(p) ==
    LET q == [p EXCEPT !.x = p.l_margin, !.y = TRIM_H_MM - MARGIN_BOTTOM_MM]
    IN <<[q EXCEPT !.x = TRIM_W_MM - q.r_margin],
         <<Block("footer", q, 600, Str(q.page))>> >>

\* FPDF._beginpage: next page number, cursor to the margins now in force
_beginpage(p) == [p EXCEPT !.page = p.page + 1, !.x = p.l_margin, !.y = p.t_margin]

\* FPDF.add_page: footer of the page being left, new page, header.
\* [pdf, blocks, log]: the object, the cells written, the record of the new page.
add_page(p, why) ==
    LET f == IF p.page > 0 THEN footer(p) ELSE <<p, <<>> >>
        b == _beginpage(f[1])
        hd == header(b)
        q == hd[1]
    IN [pdf |-> q,
        blocks |-> f[2] \o hd[2],
        log |-> [no |-> q.page, why |-> why, l |-> q.l_margin, r |-> q.r_margin,
                 t |-> q.t_margin, y |-> q.y, header |-> hd[2] # <<>>]]

----------------------------------------------------------------------------
(* The calls each ShowBook method makes, as a list of operations *)

Op(op, h, kind, text, n) == [op |-> op, h |-> h, kind |-> kind, text |-> text, n |-> n]
OpAddPage(why) == Op("add_page", 0, why, <<>>, 0)
OpCell(h, kind, text) == Op("cell", h, kind, text, 0)
OpLn(h) == Op("ln", h, "", <<>>, 0)
OpLine(kind) == Op("line", 0, kind, <<>>, 0)
OpMultiCell(h, kind, n) == Op("multi_cell", h, kind, <<>>, n)
OpTitle(kind, t) == Op("title", 420, kind, TitleLineText(t), 0)

title_page ==
    << OpAddPage("title_page"),
       OpCell(4500, "title", <<>>), OpCell(800, "title", <<>>),
       OpCell(1500, "title", <<>>), OpCell(1500, "title", <<>>),
       OpLn(600), OpCell(1000, "title", <<>>),
       OpLn(2000), OpMultiCell(500, "title", 7),
       OpLn(1500), OpCell(500, "title", <<>>) >>

RECURSIVE IndexEntries(_)
IndexEntries(cat) ==
    IF cat = <<>> THEN <<>>
    ELSE << OpCell(700, "index_name", safe(Head(cat).name)),
            OpCell(600, "index_counts",
                   IndexCountsText(Len(Head(cat).Movies), Len(Head(cat).Shows))),
            OpLn(200) >> \o IndexEntries(Tail(cat))

RECURSIVE TotalTitles(_)
TotalTitles(cat) ==
    IF cat = <<>> THEN 0
    ELSE Len(Head(cat).Movies) + Len(Head(cat).Shows) + TotalTitles(Tail(cat))

index_page(cat) ==
    << OpAddPage("index_page"), OpCell(1400, "index_title", <<>>), OpLine("index_rule"), OpLn(800) >>
    \o IndexEntries(cat)
    \o << OpLn(800), OpLine("index_rule"), OpLn(400),
          OpCell(700, "index_total", IndexTotalText(TotalTitles(cat), Len(cat))) >>

_title_list(heading, kind, titles) ==
    << OpCell(900, "list_heading", ListHeadingText(heading, Len(titles))), OpLn(200) >>
    \o [i \in 1..Len(titles) |-> OpTitle(kind, titles[i])]

provider_section_no_page(provider_name, movies, shows) ==
    << OpCell(1400, "provider_heading", safe(provider_name)), OpLine("section_rule"), OpLn(600) >>
    \o _title_list(S_Movies, "movie_line", movies)
    \o << OpLn(500) >>
    \o _title_list(S_Shows, "show_line", shows)

provider_section(provider_name, movies, shows) ==
    << OpAddPage("provider_section"),
       OpCell(1400, "provider_heading", safe(provider_name)), OpLine("section_rule"), OpLn(600) >>
    \o _title_list(S_Movies, "movie_line", movies)
    \o << OpLn(500) >>
    \o _title_list(S_Shows, "show_line", shows)

back_matter ==
    << OpAddPage("back_matter"),
       OpCell(7000, "colophon", <<>>), OpCell(700, "colophon", <<>>),
       OpLn(400), OpMultiCell(500, "colophon", 10) >>

RECURSIVE Sections(_)
Sections(cat) ==
    IF cat = <<>> THEN <<>>
    ELSE provider_section(Head(cat).name, Head(cat).Movies, Head(cat).Shows)
         \o Sections(Tail(cat))

\* the pad test of generate_pdf: pdf.page_no() % 2 == 1
pad_needed_even(page) == page % 2 = 0

pad_needed(page) == page % 2 = 1

generate_pdf(cat) ==
    title_page \o index_page(cat) \o Sections(cat) \o back_matter
    \o << Op("pad", 0, "pad", <<>>, 0), Op("output", 0, "", <<>>, 0) >>

----------------------------------------------------------------------------
(* Catalogs the build is run on *)

Year2020 == <<50, 48, 50, 48>>

\* The i-th title of a sorted list: names "101", "102", ... (every third one
\* ends in a character outside latin-1), every second one without a year
TitleAt(i) ==
    << Str(100 + i) \o (IF i % 3 = 0 THEN <<8364>> ELSE <<>>),
       IF i % 2 = 0 THEN None ELSE Year2020 >>

Titles(n) == [i \in 1..n |-> TitleAt(i)]

\* Provider display names, not in alphabetical order: "P9", "P8" followed by a
\* character outside latin-1, "P7", ...
ProviderName(i) == <<80>> \o Str(10 - i) \o (IF i % 2 = 0 THEN <<8364>> ELSE <<>>)

\* List lengths tried: empty, two titles, and enough to run past a page
TitleCounts == {0, 2, MaxTitles}

\* the first k providers, each list of one of the lengths tried
BuildCatalogs ==
    UNION { { [i \in 1..k |->
                 [name |-> ProviderName(i), Movies |-> Titles(c[i][1]),
                  Shows |-> Titles(c[i][2])]]
              : c \in [1..k -> TitleCounts \X TitleCounts] }
            : k \in 0..MaxProviders }

----------------------------------------------------------------------------
(* Idle values of the parts a specification does not run *)

IdleFetch == [max_pages |-> 0, page |-> 0, titles |-> <<>>, requests |-> <<>>,
              last_total |-> 1, top_total |-> 1, result |-> <<>>, status |-> "idle"]
IdleMain == [i |-> 0, media |-> "", catalog |-> <<>>, movies |-> <<>>,
             nreq |-> 0, failed |-> FALSE, failed_status |-> -1, failed_at |-> 0]
IdleArgs == [from_cache |-> FALSE, list_providers |-> FALSE, fetch_only |-> FALSE,
             has_key |-> FALSE, max_pages |-> 0]

BuildIdle ==
    /\ catalog = <<>> /\ prog = <<>> /\ pc = 0 /\ pdf = ShowBook
    /\ doc = <<>> /\ running = <<>> /\ pagelog = <<>> /\ pages_out = -1
FetchIdle == ft = IdleFetch
MainIdle ==
    /\ fa = IdleMain /\ mainpc = "idle" /\ args = IdleArgs /\ exit_code = -1
    /\ saved = <<>> /\ rendered = <<>>
CacheIdle ==
    /\ cache_in = <<>> /\ cache_file = <<>> /\ cache_out = <<>> /\ cachepc = "idle"

----------------------------------------------------------------------------
(* generate_pdf, one call on the ShowBook object per step *)

Running == pdf.state = "open" /\ pc >= 1 /\ pc <= Len(prog)
Cur == prog[pc]

AddPage ==
    /\ Running /\ Cur.op = "add_page"
    /\ LET r == add_page(pdf, Cur.kind)
       IN /\ pdf' = r.pdf
          /\ running' = running \o r.blocks
          /\ pagelog' = Append(pagelog, r.log)
    /\ pc' = pc + 1
    /\ UNCHANGED <<catalog, prog, doc, pages_out>>

\* cell(0, h, text, ln=True): written at the cursor, which then moves down by h
Cell ==
    /\ Running /\ Cur.op = "cell"
    /\ doc' = Append(doc, Block(Cur.kind, pdf, Cur.h, Cur.text))
    /\ pdf' = ln(pdf, Cur.h)
    /\ pc' = pc + 1
    /\ UNCHANGED <<catalog, prog, running, pagelog, pages_out>>

Ln ==
    /\ Running /\ Cur.op = "ln"
    /\ pdf' = ln(pdf, Cur.h)
    /\ pc' = pc + 1
    /\ UNCHANGED <<catalog, prog, doc, running, pagelog, pages_out>>

\* line(l_margin, y, TRIM_W_MM - r_margin, y): the cursor does not move
Line ==
    /\ Running /\ Cur.op = "line"
    /\ doc' = Append(doc, Block(Cur.kind, pdf, 0, <<pdf.l_margin, TRIM_W_MM - pdf.r_margin>>))
    /\ pc' = pc + 1
    /\ UNCHANGED <<catalog, prog, pdf, running, pagelog, pages_out>>

\* multi_cell(0, h, text): one cell of height h per line of the text
MultiCell ==
    /\ Running /\ Cur.op = "multi_cell"
    /\ doc' = doc \o [i \in 1..Cur.n |->
                        Block(Cur.kind, ln(pdf, (i - 1) * Cur.h), Cur.h, <<>>)]
    /\ pdf' = ln(pdf, Cur.n * Cur.h)
    /\ pc' = pc + 1
    /\ UNCHANGED <<catalog, prog, running, pagelog, pages_out>>

TitleLine_skip_on_break ==
    /\ Running /\ Cur.op = "title"
    /\ LET brk == pdf.y > _bottom
           r == add_page(pdf, "_title_list")
       IN /\ doc' = IF brk THEN doc
                    ELSE Append(doc, Block(Cur.kind, pdf, Cur.h, Cur.text))
          /\ running' = IF brk THEN running \o r.blocks ELSE running
          /\ pagelog' = IF brk THEN Append(pagelog, r.log) ELSE pagelog
          /\ pdf' = IF brk THEN r.pdf ELSE ln(pdf, Cur.h)
    /\ pc' = pc + 1
    /\ UNCHANGED <<catalog, prog, pages_out>>

\* one iteration of _title_list's loop: a page break if the cursor is past
\* _bottom, then the title's cell
TitleLine ==
    /\ Running /\ Cur.op = "title"
    /\ LET brk == pdf.y > _bottom
           r == add_page(pdf, "_title_list")
           p == IF brk THEN r.pdf ELSE pdf
       IN /\ doc' = Append(doc, Block(Cur.kind, p, Cur.h, Cur.text))
          /\ running' = IF brk THEN running \o r.blocks ELSE running
          /\ pagelog' = IF brk THEN Append(pagelog, r.log) ELSE pagelog
          /\ pdf' = ln(p, Cur.h)
    /\ pc' = pc + 1
    /\ UNCHANGED <<catalog, prog, pages_out>>

\* if pdf.page_no() % 2 == 1: pdf.add_page()
Pad ==
    /\ Running /\ Cur.op = "pad"
    /\ LET r == add_page(pdf, "pad")
       IN IF pad_needed(pdf.page)
          THEN /\ pdf' = r.pdf
               /\ running' = running \o r.blocks
               /\ pagelog' = Append(pagelog, r.log)
          ELSE UNCHANGED <<pdf, running, pagelog>>
    /\ pc' = pc + 1
    /\ UNCHANGED <<catalog, prog, doc, pages_out>>

\* pages = pdf.page_no(); pdf.output(path): the last page's footer, then closed
Output ==
    /\ Running /\ Cur.op = "output"
    /\ pages_out' = pdf.page
    /\ LET f == footer(pdf)
       IN /\ pdf' = [f[1] EXCEPT !.state = "closed"]
          /\ running' = running \o f[2]
    /\ pc' = pc + 1
    /\ UNCHANGED <<catalog, prog, doc, pagelog>>

InitBuild ==
    /\ catalog \in BuildCatalogs
    /\ prog = generate_pdf(catalog)
    /\ pc = 1
    /\ pdf = ShowBook
    /\ doc = <<>>
    /\ running = <<>>
    /\ pagelog = <<>>
    /\ pages_out = -1
    /\ FetchIdle /\ MainIdle /\ CacheIdle

NextBuild ==
    \/ AddPage /\ UNCHANGED <<fetchVars, mainVars, cacheVars>>
    \/ Cell /\ UNCHANGED <<fetchVars, mainVars, cacheVars>>
    \/ Ln /\ UNCHANGED <<fetchVars, mainVars, cacheVars>>
    \/ Line /\ UNCHANGED <<fetchVars, mainVars, cacheVars>>
    \/ MultiCell /\ UNCHANGED <<fetchVars, mainVars, cacheVars>>
    \/ TitleLine /\ UNCHANGED <<fetchVars, mainVars, cacheVars>>
    \/ Pad /\ UNCHANGED <<fetchVars, mainVars, cacheVars>>
    \/ Output /\ UNCHANGED <<fetchVars, mainVars, cacheVars>>

SpecBuild == InitBuild /\ [][NextBuild]_vars

----------------------------------------------------------------------------
(* What the finished or growing document holds *)

Closed == pdf.state = "closed"
DocIdx == 1..Len(doc)

TitleKinds == {"title"}
IndexKinds == {"index_title", "index_rule", "index_name", "index_counts", "index_total"}
SectionKinds == {"provider_heading", "section_rule", "list_heading", "movie_line", "show_line"}

Phase(i) ==
    IF doc[i].kind \in TitleKinds THEN 1
    ELSE IF doc[i].kind \in IndexKinds THEN 2
    ELSE IF doc[i].kind \in SectionKinds THEN 3
    ELSE 4

\* the indexes of a set, in increasing order
RECURSIVE Ascending(_)
Ascending(S) ==
    IF S = {} THEN <<>>
    ELSE LET m == CHOOSE x \in S : \A z \in S : x <= z
         IN <<m>> \o Ascending(S \ {m})

OfKind(kind) == {i \in DocIdx : doc[i].kind = kind}
TextsOfKind(kind) == LET ix == Ascending(OfKind(kind)) IN [k \in 1..Len(ix) |-> doc[ix[k]].text]

\* the number of the provider section block i belongs to (0 before the first)
SectionOf(i) == Cardinality({j \in OfKind("provider_heading") : j <= i})

LinesOf(k, kind) ==
    LET ix == Ascending({i \in OfKind(kind) : SectionOf(i) = k})
    IN [n \in 1..Len(ix) |-> doc[ix[n]].text]

\* block i is the first content written on its page
FirstOnPage(i) == i = 1 \/ doc[i - 1].page # doc[i].page

RunIdx == 1..Len(running)
Headers == {i \in RunIdx : running[i].kind = "header"}
Footers == {i \in RunIdx : running[i].kind = "footer"}

PagesWhy(why) == {i \in 1..Len(pagelog) : pagelog[i].why = why}

----------------------------------------------------------------------------
(* C1 *)

C1Kinds == {"index_title", "index_name", "index_counts", "index_total",
            "provider_heading", "list_heading", "movie_line", "show_line"}

\* C1: every index line, provider heading, list heading and title line lies
\* inside the content area when it is written: y + height <= _bottom.
C1_BlocksInsideContentArea ==
    \A i \in DocIdx : doc[i].kind \in C1Kinds => doc[i].y + doc[i].h <= _bottom

----------------------------------------------------------------------------
(* C2 *)

LeftFor(n) == IF n % 2 = 1 THEN MARGIN_GUTTER_MM ELSE MARGIN_OUTSIDE_MM
RightFor(n) == IF n % 2 = 1 THEN MARGIN_OUTSIDE_MM ELSE MARGIN_GUTTER_MM

\* C2: the margins of every page started depend only on the parity of its
\* number (odd: gutter left, outside right; even: mirrored), they stay in
\* force while the page is current (every rule is drawn between them), and
\* pages N and N+2 have the same margins.
C2_MarginsByParity ==
    /\ \A i \in 1..Len(pagelog) :
          /\ pagelog[i].l = LeftFor(pagelog[i].no)
          /\ pagelog[i].r = RightFor(pagelog[i].no)
          /\ i + 2 <= Len(pagelog) =>
                /\ pagelog[i + 2].l = pagelog[i].l
                /\ pagelog[i + 2].r = pagelog[i].r
    /\ pdf.page > 0 => pdf.l_margin = LeftFor(pdf.page) /\ pdf.r_margin = RightFor(pdf.page)
    /\ \A i \in DocIdx :
          doc[i].kind \in {"index_rule", "section_rule"} =>
             doc[i].text = <<LeftFor(doc[i].page), TRIM_W_MM - RightFor(doc[i].page)>>

C2_Witness ==
    /\ Closed
    /\ PagesWhy("_title_list") # {}
    /\ PagesWhy("pad") # {}
    /\ Len(pagelog) >= 6

----------------------------------------------------------------------------
(* C3 *)

\* C3: the page count generate_pdf returns is even; exactly one page is
\* appended after the colophon when the count was odd there and none when it
\* was even; the pad test is false afterwards, so a second pad adds nothing.
C3_EvenPageCount ==
    Closed =>
       /\ pages_out % 2 = 0
       /\ pages_out = pdf.page
       /\ pages_out = Len(pagelog)
       /\ ~pad_needed(pdf.page)
       /\ \A c \in PagesWhy("back_matter") :
             /\ Cardinality(PagesWhy("pad")) = (IF c % 2 = 1 THEN 1 ELSE 0)
             /\ pages_out = c + Cardinality(PagesWhy("pad"))

C3_Witness == Closed /\ PagesWhy("pad") # {} /\ Len(catalog) > 0 /\ pages_out >= 6

----------------------------------------------------------------------------
(* C4 *)

RenderedTotal == Cardinality(OfKind("movie_line")) + Cardinality(OfKind("show_line"))

\* C4: in the finished document the index names the providers in the order of
\* their sections; each index entry's counts are the numbers of title lines
\* written in that provider's Movies and Shows lists; those lines are the
\* catalog's titles, each once and in order; the index total is the number of
\* title lines written.
C4_IndexMatchesSections ==
    Closed =>
       /\ TextsOfKind("index_name") = TextsOfKind("provider_heading")
       /\ Len(TextsOfKind("index_counts")) = Len(TextsOfKind("provider_heading"))
       /\ \A k \in 1..Len(TextsOfKind("provider_heading")) :
             /\ TextsOfKind("index_counts")[k] =
                   IndexCountsText(Len(LinesOf(k, "movie_line")), Len(LinesOf(k, "show_line")))
             /\ k <= Len(catalog)
             /\ LinesOf(k, "movie_line") =
                   [n \in 1..Len(catalog[k].Movies) |-> TitleLineText(catalog[k].Movies[n])]
             /\ LinesOf(k, "show_line") =
                   [n \in 1..Len(catalog[k].Shows) |-> TitleLineText(catalog[k].Shows[n])]
       /\ TextsOfKind("index_total") =
             <<IndexTotalText(RenderedTotal, Len(TextsOfKind("provider_heading")))>>

\* two providers, and a title list that continues over a page break
C4_Witness ==
    /\ Closed
    /\ Len(catalog) = 2
    /\ PagesWhy("_title_list") # {}
    /\ \E i, j \in OfKind("show_line") :
          SectionOf(i) = SectionOf(j) /\ doc[i].page # doc[j].page

----------------------------------------------------------------------------
(* C9 *)

\* C9: content is written in the order title block (page 1), index, one
\* section per provider in catalog order, colophon; every section and the
\* colophon start on a fresh page; the pad, when there is one, is the last
\* page and stays empty; pages are numbered 1, 2, 3, ... without gaps.
C9_FixedOrder ==
    /\ \A i \in DocIdx :
          i > 1 => Phase(i - 1) <= Phase(i) /\ doc[i - 1].page <= doc[i].page
    /\ \A i \in OfKind("title") : doc[i].page = 1
    /\ Len(TextsOfKind("provider_heading")) <= Len(catalog)
    /\ \A k \in 1..Len(TextsOfKind("provider_heading")) :
          TextsOfKind("provider_heading")[k] = safe(catalog[k].name)
    /\ \A i \in OfKind("provider_heading") : FirstOnPage(i)
    /\ \A i \in OfKind("colophon") :
          (\A j \in OfKind("colophon") : i <= j) => FirstOnPage(i)
    /\ \A i \in 1..Len(pagelog) : pagelog[i].no = i
    /\ \A p \in PagesWhy("pad") :
          /\ p = Len(pagelog)
          /\ PagesWhy("back_matter") = {p - 1}
          /\ \A i \in DocIdx : doc[i].page < p
    /\ Closed =>
          /\ OfKind("title") # {} /\ OfKind("index_total") # {} /\ OfKind("colophon") # {}
          /\ Len(TextsOfKind("provider_heading")) = Len(catalog)
          /\ Cardinality(PagesWhy("provider_section")) = Len(catalog)
          /\ PagesWhy("title_page") = {1} /\ PagesWhy("index_page") = {2}
          /\ Cardinality(PagesWhy("back_matter")) = 1
          /\ \A c \in PagesWhy("back_matter") : c >= Len(pagelog) - 1

C9_Witness ==
    /\ Closed
    /\ Len(catalog) = 2
    /\ PagesWhy("pad") # {}
    /\ PagesWhy("_title_list") # {}

----------------------------------------------------------------------------
(* C10 *)

\* the header is absent on page 1 and present on every later page, and every
\* finished page carries one footer showing its own number
C10_HeaderFooter ==
    /\ \A i \in Headers : running[i].page > 1
    /\ \A n \in 2..Len(pagelog) : \E i \in Headers : running[i].page = n
    /\ \A n \in 1..Len(pagelog) :
          (n < pdf.page \/ Closed) =>
             /\ Cardinality({i \in Footers : running[i].page = n}) = 1
             /\ \A i \in Footers : running[i].page = n => running[i].text = Str(n)

\* C10: no running header on page 1, one on every page after it; a footer
\* with the page's own number on every page; and after each page start the
\* cursor is at the top margin, plus the header's 8 mm on pages after the first.
C10_HeaderFooterCursor ==
    /\ C10_HeaderFooter
    /\ \A n \in 1..Len(pagelog) :
          pagelog[n].y = MARGIN_TOP_MM + (IF pagelog[n].no > 1 THEN 800 ELSE 0)

----------------------------------------------------------------------------
(* Strings as Python compares and folds them *)

\* a <= b, comparing code point by code point
RECURSIVE StrLeq(_, _)
StrLeq(a, b) ==
    IF a = <<>> THEN TRUE
    ELSE IF b = <<>> THEN FALSE
    ELSE IF a[1] < b[1] THEN TRUE
    ELSE IF a[1] > b[1] THEN FALSE
    ELSE StrLeq(Tail(a), Tail(b))

\* str.lower() on one character of ASCII or latin-1: sharp s (223) stays
LowerChar(c) ==
    IF c \in 65..90 THEN c + 32
    ELSE IF c \in 192..222 /\ c # 215 THEN c + 32
    ELSE c

lower(name) == [i \in 1..Len(name) |-> LowerChar(name[i])]

\* str.casefold() on ASCII and latin-1: as lower(), except that sharp s (223)
\* becomes "ss" and the micro sign (181) becomes the Greek mu (956)
RECURSIVE casefold(_)
casefold(name) ==
    IF name = <<>> THEN <<>>
    ELSE (IF name[1] = 223 THEN <<115, 115>>
          ELSE IF name[1] = 181 THEN <<956>>
          ELSE <<LowerChar(name[1])>>)
         \o casefold(Tail(name))

Truthy(v) == v # None /\ v # <<>>

S_Unknown == <<85, 110, 107, 110, 111, 119, 110>>

\* name = item.get("title") or item.get("name") or "Unknown"
ItemName(item) ==
    IF Truthy(item.title) THEN item.title
    ELSE IF Truthy(item.name) THEN item.name
    ELSE S_Unknown

\* release = release_date or first_air_date or ""; year = release[:4] if release
ItemYear(item) ==
    LET release == IF Truthy(item.release_date) THEN item.release_date
                   ELSE IF Truthy(item.first_air_date) THEN item.first_air_date
                   ELSE <<>>
    IN IF release # <<>> THEN SubSeq(release, 1, Min(4, Len(release))) ELSE None

ParseResults(results) ==
    [i \in 1..Len(results) |-> <<ItemName(results[i]), ItemYear(results[i])>>]

\* the de-duplication loop: key = name.lower(), first occurrence kept
RECURSIVE Dedup(_, _)
Dedup(titles, seen) ==
    IF titles = <<>> THEN <<>>
    ELSE LET key == lower(Head(titles)[1])
         IN IF key \in seen
            THEN Dedup(Tail(titles), seen)
            ELSE <<Head(titles)>> \o Dedup(Tail(titles), seen \cup {key})

\* sorted(unique, key=lambda t: t[0].casefold()): stable
RECURSIVE InsertByCasefold(_, _)
InsertByCasefold(t, s) ==
    IF s = <<>> THEN <<t>>
    ELSE IF StrLeq(casefold(Head(s)[1]), casefold(t[1]))
         THEN <<Head(s)>> \o InsertByCasefold(t, Tail(s))
         ELSE <<t>> \o s

RECURSIVE SortedByCasefold(_)
SortedByCasefold(s) ==
    IF s = <<>> THEN <<>>
    ELSE InsertByCasefold(s[Len(s)], SortedByCasefold(SubSeq(s, 1, Len(s) - 1)))

----------------------------------------------------------------------------
(* tmdb_get and fetch_titles *)

\* An HTTP exchange: status 0 stands for a transport error (no response)
Response(status, has_total, total_pages, results) ==
    [status |-> status, has_total |-> has_total, total_pages |-> total_pages,
     results |-> results]

tmdb_get_no_raise_for_status(resp) ==
    IF resp.status = 0 THEN "raise"
    ELSE IF resp.status = 401 THEN "exit"
    ELSE "json"

\* tmdb_get: sys.exit(1) on 401, raise_for_status() raises on 400..599, else
\* the JSON body
tmdb_get(resp) ==
    IF resp.status = 0 THEN "raise"
    ELSE IF resp.status = 401 THEN "exit"
    ELSE IF resp.status \in 400..599 THEN "raise"
    ELSE "json"

\* data.get("total_pages", 1)
TotalOf(resp) == IF resp.has_total THEN resp.total_pages ELSE 1

NewFetch(max_pages) ==
    [max_pages |-> max_pages, page |-> 1, titles |-> <<>>, requests |-> <<>>,
     last_total |-> 1, top_total |-> 1, result |-> <<>>, status |-> "loop"]

Max(a, b) == IF a > b THEN a ELSE b

fetch_titles_body_no_break(f, resp) ==
    LET f1 == [f EXCEPT !.requests = Append(@, f.page)]
    IN IF tmdb_get(resp) = "exit" THEN [f1 EXCEPT !.status = "exit"]
       ELSE IF tmdb_get(resp) = "raise" THEN [f1 EXCEPT !.status = "raised"]
       ELSE [f1 EXCEPT !.titles = @ \o ParseResults(resp.results),
                       !.last_total = TotalOf(resp),
                       !.top_total = Max(@, TotalOf(resp)),
                       !.page = f.page + 1]

\* one pass through the while loop of fetch_titles, entered with page <= max_pages
fetch_titles_body(f, resp) ==
    LET f1 == [f EXCEPT !.requests = Append(@, f.page)]
    IN IF tmdb_get(resp) = "exit" THEN [f1 EXCEPT !.status = "exit"]
       ELSE IF tmdb_get(resp) = "raise" THEN [f1 EXCEPT !.status = "raised"]
       ELSE LET f2 == [f1 EXCEPT !.titles = @ \o ParseResults(resp.results),
                                 !.last_total = TotalOf(resp),
                                 !.top_total = Max(@, TotalOf(resp))]
            IN IF f.page >= TotalOf(resp)
               THEN [f2 EXCEPT !.status = "break"]
               ELSE [f2 EXCEPT !.page = f.page + 1]

\* after the loop: de-duplicate, sort, return
fetch_titles_return(f) ==
    [f EXCEPT !.result = SortedByCasefold(Dedup(f.titles, {})), !.status = "returned"]

LoopEntered(f) == f.status = "loop" /\ f.page <= f.max_pages
LoopLeft(f) == f.status = "break" \/ (f.status = "loop" /\ f.page > f.max_pages)

----------------------------------------------------------------------------
(* One fetch_titles call against any provider *)

MaxPagesArg == 3
MaxFetched == 3

S_Dune == <<68, 117, 110, 101>>
S_dune == <<100, 117, 110, 101>>
S_DunePartTwo == <<68, 117, 110, 101, 58, 32, 80, 97, 114, 116, 32, 84, 119, 111>>
S_Eszett == <<223>>
S_ss == <<115, 115>>

Item(title, name, release_date, first_air_date) ==
    [title |-> title, name |-> name, release_date |-> release_date,
     first_air_date |-> first_air_date]

\* what a discover result may look like: a movie (title, release_date), a show
\* (name, first_air_date), missing or empty fields
Items ==
    { Item(S_Dune, None, <<50, 48, 50, 49, 45, 49, 48, 45, 50, 50>>, None),
      Item(None, S_dune, None, <<49, 57, 56, 52, 45, 49, 50, 45, 49, 52>>),
      Item(S_DunePartTwo, None, <<>>, None),
      Item(S_Eszett, None, None, None),
      Item(<<>>, S_ss, None, <<50, 48>>),
      Item(None, None, None, None) }

Statuses == {200, 401, 500, 0}

\* a page of results: empty, or one item while the bound on titles leaves room
ResultPages(room) == {<<>>} \cup (IF room > 0 THEN {<<it>> : it \in Items} ELSE {})

\* the answers the provider may give: a page with a total_pages of its own
\* choosing (up to one more than any max_pages tried) or without one, or a failure
Responses(room) ==
    { Response(200, TRUE, t, r) : t \in 0..(MaxPagesArg + 1), r \in ResultPages(room) }
    \cup { Response(200, FALSE, 0, r) : r \in ResultPages(room) }
    \cup { Response(st, FALSE, 0, <<>>) : st \in Statuses \ {200} }

FetchRequest ==
    /\ LoopEntered(ft)
    /\ \E resp \in Responses(MaxFetched - Len(ft.titles)) :
          ft' = fetch_titles_body(ft, resp)

FetchReturn ==
    /\ LoopLeft(ft)
    /\ ft' = fetch_titles_return(ft)

InitFetch ==
    /\ ft \in { NewFetch(m) : m \in 0..MaxPagesArg }
    /\ BuildIdle /\ MainIdle /\ CacheIdle

NextFetch ==
    \/ FetchRequest /\ UNCHANGED <<buildVars, mainVars, cacheVars>>
    \/ FetchReturn /\ UNCHANGED <<buildVars, mainVars, cacheVars>>

SpecFetch == InitFetch /\ [][NextFetch]_vars

----------------------------------------------------------------------------
(* C5 *)

ResultIdx == 1..Len(ft.result)
NameR(i) == ft.result[i][1]

\* the result, read with one notion N of "ignoring case": no two names equal
\* under N, each entry the first fetched one with its name under N, sorted by N
NoDupLower == \A i, j \in ResultIdx : i # j => lower(NameR(i)) # lower(NameR(j))
NoDupCasefold == \A i, j \in ResultIdx : i # j => casefold(NameR(i)) # casefold(NameR(j))

FirstLower ==
    \A i \in ResultIdx : \E k \in 1..Len(ft.titles) :
       /\ ft.titles[k] = ft.result[i]
       /\ \A m \in 1..(k - 1) : lower(ft.titles[m][1]) # lower(NameR(i))
FirstCasefold ==
    \A i \in ResultIdx : \E k \in 1..Len(ft.titles) :
       /\ ft.titles[k] = ft.result[i]
       /\ \A m \in 1..(k - 1) : casefold(ft.titles[m][1]) # casefold(NameR(i))

AllKeysKept ==
    \A k \in 1..Len(ft.titles) : \E i \in ResultIdx : lower(NameR(i)) = lower(ft.titles[k][1])

SortedLower == \A i, j \in ResultIdx : i < j => StrLeq(lower(NameR(i)), lower(NameR(j)))
SortedCasefold ==
    \A i, j \in ResultIdx : i < j => StrLeq(casefold(NameR(i)), casefold(NameR(j)))

\* C5: the returned list has no two names equal ignoring case, keeps for each
\* name the entry fetched first, and is sorted ignoring case -- with "ignoring
\* case" read as lower() throughout or as casefold() throughout.
C5_DedupFirstSorted ==
    ft.status = "returned" =>
       \/ NoDupLower /\ FirstLower /\ SortedLower
       \/ NoDupCasefold /\ FirstCasefold /\ SortedCasefold

\* what the code does: duplicates by lower(), order by casefold()
C5_AsCoded ==
    ft.status = "returned" =>
       NoDupLower /\ FirstLower /\ AllKeysKept /\ SortedCasefold

\* the example of the claim: Dune, dune, Dune: Part Two
C5_DuneExample ==
    (ft.status = "returned" /\
     [k \in 1..Len(ft.titles) |-> ft.titles[k][1]] = <<S_Dune, S_dune, S_DunePartTwo>>)
    => [i \in ResultIdx |-> NameR(i)] = <<S_Dune, S_DunePartTwo>>

----------------------------------------------------------------------------
(* C8 *)

Ended == ft.status \in {"returned", "exit", "raised"}

\* C8: the call ends, and when it has returned the number of requests made is
\* at most min(the total page count the provider reported, max_pages).
C8_RequestsWithinReportedTotal ==
    (ft.status = "returned" /\ ft.requests # <<>>) =>
       Len(ft.requests) <= Min(ft.last_total, ft.max_pages)

C8_Pages ==
    /\ ft.requests = [k \in 1..Len(ft.requests) |-> k]
    /\ Len(ft.requests) <= ft.max_pages
    /\ Len(ft.requests) <= Max(1, ft.top_total)
    /\ (LoopEntered(ft) /\ ft.page > 1) => ft.page <= ft.last_total

\* what is left of the call: 0 once it has ended, and less after every step
FetchMeasure(f) ==
    IF f.status \in {"returned", "exit", "raised"} THEN 0
    ELSE IF f.status = "break" THEN 1
    ELSE 2 + (f.max_pages + 1 - f.page)

\* C8 (amended): the loop terminates (a step is always possible until the call
\* has ended, and every step lowers FetchMeasure); it requests pages 1, 2, 3, ... in order,
\* none twice; at most max_pages requests are made, and at most
\* max(1, the largest total_pages any answer reported); a page after the first
\* is requested only when the latest answer reported at least that many pages.
C8_BoundedRequests ==
    /\ []C8_Pages
    /\ [](Ended \/ LoopEntered(ft) \/ LoopLeft(ft))
    /\ [][FetchMeasure(ft') < FetchMeasure(ft)]_vars

\* three requests, stopped by max_pages while the provider reports more pages
C8_Witness ==
    /\ ft.status = "returned"
    /\ ft.requests = <<1, 2, 3>>
    /\ ft.max_pages = 3
    /\ ft.last_total > 3

----------------------------------------------------------------------------
(* The JSON cache: save_cache and load_cache *)

S_null == <<110, 117, 108, 108>>

\* one hexadecimal digit, in lower case as json.dump writes it
HexDigit(n) == IF n < 10 THEN 48 + n ELSE 87 + n

\* the four hexadecimal digits of \uXXXX
Hex4(n) ==
    <<HexDigit(n \div 4096), HexDigit((n \div 256) % 16),
      HexDigit((n \div 16) % 16), HexDigit(n % 16)>>

\* one character as json.dump(ensure_ascii=False) writes it inside a string:
\* the quote and the backslash behind a backslash, \b \t \n \f \r for their
\* control characters, \u00XX for the other characters below 32; every other
\* character, non-ASCII included, as itself
JsonEscapeChar(c) ==
    IF c \in {34, 92} THEN <<92, c>>
    ELSE IF c = 8 THEN <<92, 98>>
    ELSE IF c = 9 THEN <<92, 116>>
    ELSE IF c = 10 THEN <<92, 110>>
    ELSE IF c = 12 THEN <<92, 102>>
    ELSE IF c = 13 THEN <<92, 114>>
    ELSE IF c < 32 THEN <<92, 117>> \o Hex4(c)
    ELSE <<c>>

RECURSIVE JsonEscape(_)
JsonEscape(str) ==
    IF str = <<>> THEN <<>>
    ELSE JsonEscapeChar(str[1]) \o JsonEscape(Tail(str))

JsonString(str) == <<34>> \o JsonEscape(str) \o <<34>>

\* None is written as null
JsonScalar(v) == IF v = None THEN S_null ELSE JsonString(v)

\* the value of a hexadecimal digit in either case, -1 for any other character
HexVal(c) ==
    IF c \in 48..57 THEN c - 48
    ELSE IF c \in 97..102 THEN c - 87
    ELSE IF c \in 65..70 THEN c - 55
    ELSE -1

\* txt starts with u and four hexadecimal digits
IsUEscape(txt) ==
    /\ Len(txt) >= 5
    /\ txt[1] = 117
    /\ \A i \in 2..5 : HexVal(txt[i]) >= 0

\* the number the escape uXXXX at the head of txt denotes
UEscapeVal(txt) ==
    HexVal(txt[2]) * 4096 + HexVal(txt[3]) * 256 + HexVal(txt[4]) * 16 + HexVal(txt[5])

\* the character a one-letter escape denotes, -1 when there is no such escape
SimpleEscape(c) ==
    IF c \in {34, 92, 47} THEN c
    ELSE IF c = 98 THEN 8
    ELSE IF c = 102 THEN 12
    ELSE IF c = 110 THEN 10
    ELSE IF c = 114 THEN 13
    ELSE IF c = 116 THEN 9
    ELSE -1

\* the body of a string literal json.load accepts: no bare quote, no bare
\* control character, every backslash followed by an escape
RECURSIVE JsonBodyOk(_)
JsonBodyOk(txt) ==
    IF txt = <<>> THEN TRUE
    ELSE IF txt[1] = 92
         THEN LET rest == Tail(txt)
              IN IF rest = <<>> THEN FALSE
                 ELSE IF SimpleEscape(rest[1]) >= 0 THEN JsonBodyOk(Tail(rest))
                 ELSE IsUEscape(rest) /\ JsonBodyOk(SubSeq(rest, 6, Len(rest)))
         ELSE txt[1] # 34 /\ txt[1] >= 32 /\ JsonBodyOk(Tail(txt))

\* a scalar json.load accepts as a string or as None
JsonScalarOk(txt) ==
    \/ txt = S_null
    \/ /\ Len(txt) >= 2
       /\ txt[1] = 34
       /\ txt[Len(txt)] = 34
       /\ JsonBodyOk(SubSeq(txt, 2, Len(txt) - 1))

\* json.load on the body of a string literal: every escape replaced by the
\* character it denotes, a high and a low surrogate escape in a row by the one
\* character they encode
RECURSIVE JsonUnescape(_)
JsonUnescape(txt) ==
    IF txt = <<>> THEN <<>>
    ELSE IF txt[1] # 92 THEN <<txt[1]>> \o JsonUnescape(Tail(txt))
    ELSE LET rest == Tail(txt)
         IN IF rest[1] # 117
            THEN <<SimpleEscape(rest[1])>> \o JsonUnescape(Tail(rest))
            ELSE LET uni == UEscapeVal(rest)
                     after == SubSeq(rest, 6, Len(rest))
                     paired == /\ uni \in 55296..56319
                               /\ Len(after) >= 2
                               /\ after[1] = 92
                               /\ IsUEscape(Tail(after))
                               /\ UEscapeVal(Tail(after)) \in 56320..57343
                 IN IF paired
                    THEN <<65536 + (uni - 55296) * 1024 + (UEscapeVal(Tail(after)) - 56320)>>
                         \o JsonUnescape(SubSeq(after, 7, Len(after)))
                    ELSE <<uni>> \o JsonUnescape(after)

\* json.load on a scalar: null gives None, a literal gives its string
JsonParseScalar(txt) ==
    IF txt = S_null THEN None
    ELSE JsonUnescape(SubSeq(txt, 2, Len(txt) - 1))

\* a title as a Python value: the sequence type it has, its name and its year
PyTitle(py, name, year) == [py |-> py, name |-> name, year |-> year]

\* a tuple or list of two scalars becomes a JSON array
JsonArray(t) == <<JsonScalar(t.name), JsonScalar(t.year)>>

\* json.load gives a list for every array
JsonParseArray(a) == PyTitle("list", JsonParseScalar(a[1]), JsonParseScalar(a[2]))

\* tuple(t)
tuple(t) == [t EXCEPT !.py = "tuple"]

\* save_cache: the document json.dump writes
save_cache(cat, region) ==
    [fetched_at |-> JsonString(<<>>),
     region |-> JsonString(region),
     providers |->
        [i \in 1..Len(cat) |->
           [key |-> JsonString(cat[i].name),
            Movies |-> [n \in 1..Len(cat[i].Movies) |-> JsonArray(cat[i].Movies[n])],
            Shows |-> [n \in 1..Len(cat[i].Shows) |-> JsonArray(cat[i].Shows[n])]]]]

\* json.load(f)["providers"]
json_load_providers(file) ==
    [i \in 1..Len(file.providers) |->
       [name |-> JsonParseScalar(file.providers[i].key),
        Movies |-> [n \in 1..Len(file.providers[i].Movies) |->
                      JsonParseArray(file.providers[i].Movies[n])],
        Shows |-> [n \in 1..Len(file.providers[i].Shows) |->
                     JsonParseArray(file.providers[i].Shows[n])]]]

\* every scalar of the document is one json.load accepts
JsonFileOk(file) ==
    \A i \in 1..Len(file.providers) :
       /\ JsonScalarOk(file.providers[i].key)
       /\ \A n \in 1..Len(file.providers[i].Movies) :
             \A k \in 1..2 : JsonScalarOk(file.providers[i].Movies[n][k])
       /\ \A n \in 1..Len(file.providers[i].Shows) :
             \A k \in 1..2 : JsonScalarOk(file.providers[i].Shows[n][k])

load_cache_keeps_lists(file) == json_load_providers(file)

\* load_cache: every title list rebuilt with tuple(t)
load_cache(file) ==
    LET data == json_load_providers(file)
    IN [i \in 1..Len(data) |->
          [name |-> data[i].name,
           Movies |-> [n \in 1..Len(data[i].Movies) |-> tuple(data[i].Movies[n])],
           Shows |-> [n \in 1..Len(data[i].Shows) |-> tuple(data[i].Shows[n])]]]

----------------------------------------------------------------------------
(* The cache round trip *)

MaxCacheTitles == 2

S_Netflix == <<78, 101, 116, 102, 108, 105, 120>>
S_Hulu == <<72, 117, 108, 117>>
\* A " \ n, a line feed and a bell: a quote, a backslash in front of a letter
\* that names an escape, and two control characters
S_NeedsEscape == <<65, 34, 92, 110, 10, 7>>
S_US == <<85, 83>>

\* a title without a year whose name needs escaping, and a plain one
CacheTitles ==
    { PyTitle("tuple", S_NeedsEscape, None),
      PyTitle("tuple", S_Dune, <<50, 48, 50, 49>>) }

CacheLists == UNION { [1..k -> CacheTitles] : k \in 0..MaxCacheTitles }

\* no, one or two providers, in either order
CacheNameOrders == { <<>>, <<S_Netflix>>, <<S_Hulu>>, <<S_Netflix, S_Hulu>>, <<S_Hulu, S_Netflix>> }

\* the catalog with providers o and lists l
CacheCatalog(o, l) ==
    [i \in 1..Len(o) |-> [name |-> o[i], Movies |-> l[i][1], Shows |-> l[i][2]]]

SaveCache ==
    /\ cachepc = "start"
    /\ cache_file' = save_cache(cache_in, S_US)
    /\ cachepc' = "saved"
    /\ UNCHANGED <<cache_in, cache_out>>

\* load_cache; json.load raises JSONDecodeError on a file it cannot read
LoadCache ==
    /\ cachepc = "saved"
    /\ IF JsonFileOk(cache_file)
       THEN /\ cache_out' = load_cache(cache_file)
            /\ cachepc' = "loaded"
       ELSE /\ cachepc' = "JSONDecodeError"
            /\ UNCHANGED cache_out
    /\ UNCHANGED <<cache_in, cache_file>>

InitCache ==
    /\ \E o \in CacheNameOrders :
          \E l \in [1..Len(o) -> CacheLists \X CacheLists] : cache_in = CacheCatalog(o, l)
    /\ cache_file = <<>>
    /\ cache_out = <<>>
    /\ cachepc = "start"
    /\ BuildIdle /\ FetchIdle /\ MainIdle

NextCache ==
    \/ SaveCache /\ UNCHANGED <<buildVars, fetchVars, mainVars>>
    \/ LoadCache /\ UNCHANGED <<buildVars, fetchVars, mainVars>>

SpecCache == InitCache /\ [][NextCache]_vars

\* C6: load_cache of the file save_cache wrote returns the catalog that was
\* saved: the same providers in the same order, the same lists, every title
\* a tuple with the same name and year.
C6_RoundTrip == cachepc = "loaded" => cache_out = cache_in

\* two providers, one with both lists empty, the other with a title without a
\* year whose name holds a quote, a backslash and two control characters
C6_Witness ==
    /\ cachepc = "loaded"
    /\ Len(cache_in) = 2
    /\ cache_in[1].Movies = <<>> /\ cache_in[1].Shows = <<>>
    /\ cache_in[2].Movies = <<>>
    /\ cache_in[2].Shows = <<PyTitle("tuple", S_Dune, <<50, 48, 50, 49>>),
                             PyTitle("tuple", S_NeedsEscape, None)>>

----------------------------------------------------------------------------
(* main(): get_api_key, list_providers, fetch_all, save_cache, generate_pdf *)

\* the display names of PROVIDERS, in its order
PROVIDERS ==
    << S_Netflix,
       <<65, 109, 97, 122, 111, 110, 32, 80, 114, 105, 109, 101, 32, 86, 105, 100, 101, 111>>,
       <<68, 105, 115, 110, 101, 121, 43>>,
       S_Hulu,
       <<77, 97, 120>>,
       <<65, 112, 112, 108, 101, 32, 84, 86, 43>>,
       <<80, 101, 97, 99, 111, 99, 107>>,
       <<80, 97, 114, 97, 109, 111, 117, 110, 116, 43>> >>

\* what TMDB answers in a run of main: any status; on 200 one result of the
\* media type asked for and a total of one or two pages
MainResponses(media) ==
    { Response(200, TRUE, t,
               << IF media = "movie"
                  THEN Item(S_Dune, None, <<50, 48, 50, 49, 45, 49, 48, 45, 50, 50>>, None)
                  ELSE Item(None, S_dune, None, <<49, 57, 56, 52, 45, 49, 50, 45, 49, 52>>) >>)
      : t \in 1..2 }
    \cup { Response(st, FALSE, 0, <<>>) : st \in Statuses \ {200} }

\* the catalog in the file --from-cache names
CachedCatalog ==
    << [name |-> S_Netflix, Movies |-> <<PyTitle("tuple", S_Dune, <<50, 48, 50, 49>>)>>,
        Shows |-> <<>>] >>

\* fetch_titles returns (name, year) tuples
AsTuples(result) == [n \in 1..Len(result) |-> PyTitle("tuple", result[n][1], result[n][2])]

\* the count of requests made, and the first one that did not answer 200
NoteRequest(f, status) ==
    IF status # 200 /\ ~f.failed
    THEN [f EXCEPT !.nreq = @ + 1, !.failed = TRUE, !.failed_status = status,
                   !.failed_at = f.nreq + 1]
    ELSE [f EXCEPT !.nreq = @ + 1]

Exit(code, where) == exit_code' = code /\ mainpc' = where

\* --from-cache FILE: load_cache, generate_pdf, return
MainFromCache ==
    /\ mainpc = "start" /\ args.from_cache
    /\ rendered' = Append(rendered, load_cache(cache_file))
    /\ Exit(0, "done")
    /\ UNCHANGED <<fa, ft, args, saved>>

\* get_api_key: sys.exit(1) without a key; then --list-providers or the fetch
GetApiKey ==
    /\ mainpc = "start" /\ ~args.from_cache
    /\ IF ~args.has_key THEN Exit(1, "exited") /\ UNCHANGED <<fa, ft>>
       ELSE IF args.list_providers
            THEN mainpc' = "list_providers" /\ UNCHANGED <<fa, ft, exit_code>>
            ELSE /\ mainpc' = "fetch_all"
                 /\ fa' = [fa EXCEPT !.i = 1, !.media = "movie"]
                 /\ ft' = NewFetch(args.max_pages)
                 /\ UNCHANGED exit_code
    /\ UNCHANGED <<args, saved, rendered>>

\* list_providers: one tmdb_get, then return
ListProviders ==
    /\ mainpc = "list_providers"
    /\ \E st \in Statuses :
          LET r == tmdb_get(Response(st, FALSE, 0, <<>>))
          IN /\ fa' = NoteRequest(fa, st)
             /\ IF r = "json" THEN Exit(0, "done")
                ELSE IF r = "exit" THEN Exit(1, "exited")
                ELSE Exit(1, "crashed")
    /\ UNCHANGED <<ft, args, saved, rendered>>

\* one pass of the loop of the fetch_titles call fetch_all is in; sys.exit or
\* an exception raised in tmdb_get ends the process, nothing catches it
MainRequest ==
    /\ mainpc = "fetch_all" /\ LoopEntered(ft)
    /\ \E resp \in MainResponses(fa.media) :
          /\ ft' = fetch_titles_body(ft, resp)
          /\ fa' = NoteRequest(fa, resp.status)
          /\ IF ft'.status = "exit" THEN Exit(1, "exited")
             ELSE IF ft'.status = "raised" THEN Exit(1, "crashed")
             ELSE UNCHANGED <<mainpc, exit_code>>
    /\ UNCHANGED <<args, saved, rendered>>

\* fetch_titles returns into fetch_all: movies, then shows and the catalog
\* entry, then the next provider or the return to main
MainFetchReturn ==
    /\ mainpc = "fetch_all" /\ LoopLeft(ft)
    /\ LET r == AsTuples(fetch_titles_return(ft).result)
       IN IF fa.media = "movie"
          THEN /\ fa' = [fa EXCEPT !.movies = r, !.media = "tv"]
               /\ ft' = NewFetch(args.max_pages)
               /\ UNCHANGED mainpc
          ELSE LET cat == Append(fa.catalog,
                                 [name |-> PROVIDERS[fa.i], Movies |-> fa.movies, Shows |-> r])
               IN IF fa.i < Len(PROVIDERS)
                  THEN /\ fa' = [fa EXCEPT !.catalog = cat, !.movies = <<>>,
                                           !.i = @ + 1, !.media = "movie"]
                       /\ ft' = NewFetch(args.max_pages)
                       /\ UNCHANGED mainpc
                  ELSE /\ fa' = [fa EXCEPT !.catalog = cat, !.movies = <<>>]
                       /\ ft' = IdleFetch
                       /\ mainpc' = "save_cache"
    /\ UNCHANGED <<args, exit_code, saved, rendered>>

\* cache_file = save_cache(catalog, args.region); --fetch-only returns here
MainSaveCache ==
    /\ mainpc = "save_cache"
    /\ saved' = Append(saved, fa.catalog)
    /\ IF args.fetch_only THEN Exit(0, "done")
       ELSE mainpc' = "generate_pdf" /\ UNCHANGED exit_code
    /\ UNCHANGED <<fa, ft, args, rendered>>

\* generate_pdf(catalog, args.output)
MainGeneratePdf ==
    /\ mainpc = "generate_pdf"
    /\ rendered' = Append(rendered, fa.catalog)
    /\ Exit(0, "done")
    /\ UNCHANGED <<fa, ft, args, saved>>

InitMain ==
    /\ args \in [from_cache : BOOLEAN, list_providers : BOOLEAN, fetch_only : BOOLEAN,
                 has_key : BOOLEAN, max_pages : 0..MaxPagesArg]
    /\ mainpc = "start"
    /\ fa = IdleMain
    /\ ft = IdleFetch
    /\ exit_code = -1
    /\ saved = <<>>
    /\ rendered = <<>>
    /\ cache_in = CachedCatalog
    /\ cache_file = save_cache(CachedCatalog, S_US)
    /\ cache_out = <<>>
    /\ cachepc = "idle"
    /\ BuildIdle

NextMain ==
    \/ MainFromCache /\ UNCHANGED <<buildVars, cacheVars>>
    \/ GetApiKey /\ UNCHANGED <<buildVars, cacheVars>>
    \/ ListProviders /\ UNCHANGED <<buildVars, cacheVars>>
    \/ MainRequest /\ UNCHANGED <<buildVars, cacheVars>>
    \/ MainFetchReturn /\ UNCHANGED <<buildVars, cacheVars>>
    \/ MainSaveCache /\ UNCHANGED <<buildVars, cacheVars>>
    \/ MainGeneratePdf /\ UNCHANGED <<buildVars, cacheVars>>

SpecMain == InitMain /\ [][NextMain]_vars

----------------------------------------------------------------------------
(* C7 *)

MainEnded == mainpc \in {"done", "exited", "crashed"}
FetchRun == ~args.from_cache /\ ~args.list_providers

\* C7: once a request of the fetch run has failed (401, another error status,
\* no response), no further request is made, the process has ended with a
\* non-zero status (1 after a 401, from sys.exit), and neither save_cache nor
\* generate_pdf has been or will be called; what a fetch run does save or
\* render is the catalog of all providers.
C7_Aborted ==
    /\ (FetchRun /\ fa.failed) =>
          /\ fa.nreq = fa.failed_at
          /\ mainpc \in {"exited", "crashed"}
          /\ exit_code = 1
          /\ fa.failed_status = 401 => mainpc = "exited"
          /\ saved = <<>> /\ rendered = <<>>
    /\ FetchRun =>
          /\ \A k \in 1..Len(saved) : Len(saved[k]) = Len(PROVIDERS)
          /\ \A k \in 1..Len(rendered) : Len(rendered[k]) = Len(PROVIDERS) /\ saved = rendered

C7_FailureAborts == []C7_Aborted /\ [][MainEnded => UNCHANGED vars]_vars

\* a 401 on the second page of the shows of the third provider
C7_Witness ==
    /\ FetchRun
    /\ fa.failed /\ fa.failed_status = 401
    /\ fa.i = 3 /\ fa.media = "tv" /\ ft.requests = <<1, 2>>
    /\ Len(fa.catalog) = 2
    /\ mainpc = "exited"

====
